---- MODULE Spec2Model ----
(***************************************************************************)
(* Model of the multi-account scheduler (src/src/main.py,                  *)
(* TwitterOrchestrator) and of the processed-action ledger                 *)
(* (src/src/utils/file_handler.py, FileHandler).                           *)
(*                                                                         *)
(* One asyncio task per account runs _process_account.  An action of the   *)
(* model is the code one task runs between two suspension points (await):  *)
(* the event loop is single threaded, so such a stretch is atomic.         *)
(***************************************************************************)
EXTENDS Integers, Sequences, FiniteSets, TLC

(***************************************************************************)
(* Bounds of the model                                                     *)
(***************************************************************************)
NumTweets == 2      \* candidate ids the page sources can return
NumSources == 2     \* competitor profiles / keywords configured per feature
DayLen == 2         \* clock ticks per UTC calendar day
MaxClock == 4       \* last clock tick a run can see
MaxRuns == 2        \* process starts in one behaviour
\* per-run caps of the account policy (data_models.ActionConfig), kept small
max_posts_per_competitor_run == 1
max_replies_per_keyword_run == 1
max_retweets_per_keyword_run == 1
max_likes_per_run == 2
\* pacing bounds of the policy, in clock-independent delay units
min_delay_between_actions_seconds == 2
max_delay_between_actions_seconds == 4

Accounts == {"acct1", "acct2"}
Tweets == 1..NumTweets
TzOffsets == {-1, 0, 1}     \* host offset from UTC, in clock ticks
NONE == "none"

(***************************************************************************)
(* Policy (AccountConfig / ActionConfig), loaded once per run              *)
(***************************************************************************)
\* feature order of _process_account: Action 1, Action 2, Action 2b, Action 4
Features == <<"competitor", "reply", "retweet", "like">>
FeatureSet == {Features[i] : i \in 1..Len(Features)}
\* "malformed": the accounts entry is not a mapping (dict(d) raises);
\* "invalid": AccountConfig.model_validate raises; "inactive": is_active false
Shapes == {"malformed", "invalid", "inactive", "active"}

\* interaction types _decide_competitor_action can return; with the decision
\* disabled it returns the free-form competitor_post_interaction_type
InteractionTypes == {"like", "repost", "retweet", "quote_tweet"}
UnknownType == "unknown"

\* f"{interaction_type}_{account_id}_{tweet_id}": for the account ids and the
\* numeric tweet ids of this model the rendering is one-to-one, so the key is
\* kept as the triple it is rendered from
ActionKey(kind, a, t) == <<kind, a, t>>

\* max_tweets passed to the scraper by each feature loop
Max(x, y) == IF x >= y THEN x ELSE y
Min(x, y) == IF x <= y THEN x ELSE y
MaxTweetsFor(f) ==
  CASE f = "competitor" -> max_posts_per_competitor_run * 3
    [] f = "reply"      -> max_replies_per_keyword_run * 2
    [] f = "retweet"    -> Max(5, max_retweets_per_keyword_run * 3)
    [] f = "like"       -> max_likes_per_run * 2

\* sequences of distinct tweet ids (scrape_tweets_from_url drops seen ids)
RECURSIVE DistinctSeqs(_, _)
\* every sequence over S of length at most n
RECURSIVE SeqsUpTo(_, _)
SeqsUpTo(S, n) ==
  IF n = 0 THEN {<<>>}
  ELSE SeqsUpTo(S, n - 1) \cup {Append(w, x) : w \in {v \in SeqsUpTo(S, n - 1) : Len(v) = n - 1}, x \in S}

\* those without a repeated element
DistinctSeqs(S, n) ==
  IF n = 0 THEN {<<>>}
  ELSE {<<>>} \cup UNION {{<<x>> \o s : s \in DistinctSeqs(S \ {x}, n - 1)} : x \in S}

HarvestResults(f) == DistinctSeqs(Tweets, Min(MaxTweetsFor(f), NumTweets))

VARIABLES
  cfg,        \* [Accounts -> policy]: shape and enabled features
  global_settings, \* settings.json: kind of delay_between_accounts_seconds
  loop_thread, \* account whose blocking call occupies the event-loop thread
  task,       \* [Accounts -> locals of the account's coroutine]
  driver,     \* [Accounts -> "none" | "open" | "closed"]: browser session
  keys,       \* self.processed_action_keys (shared in-memory set)
  log,        \* rows of the processed-actions CSV file
  now,        \* UTC clock
  tz,         \* host's offset from UTC
  runState,   \* "gathering" | "done" | "crashed": TwitterOrchestrator.run
  results,    \* [Accounts -> "pending" | "success" | "error"]: gather results
  runs,       \* process starts so far
  hist,       \* history of the ledger (not program state)
  obs,        \* [Accounts -> history of the account's task] (not program state)
  gen,        \* one call of TextGenerator.generate_text: inputs and result
  ex,         \* extract_json_from_response_text applied to three responses
  st,         \* one call of LLMService.generate_structured
  hv,         \* one call of TweetScraper.scrape_tweets_from_url
  dc,         \* one call of TwitterOrchestrator._decide_competitor_action
  ld,         \* one call of FileHandler.load_processed_action_keys on a given file
  pm,         \* one provider attempt of generate_text: its parameters
  mt          \* MetricsRecorder of one account: counters and events

\* state of the library calls that are modelled on their own
libvars == <<gen, ex, st, hv, dc, ld, pm, mt>>
\* state of the scheduler
schedvars == <<cfg, global_settings, loop_thread, task, driver, keys, log, now, tz,
               runState, results, runs, hist, obs>>
vars == <<schedvars, libvars>>

(***************************************************************************)
(* Ledger: FileHandler                                                     *)
(***************************************************************************)
NoKey == <<NONE, NONE, 0>>

\* a CSV row; the header row carries the column names and is kept in the
\* shape of a data row so that any two rows can be compared
Row(key, ts) == [header |-> FALSE, action_key |-> key, timestamp |-> ts]
HeaderRow ==
  [header |-> TRUE, action_key |-> <<"action_key", NONE, 0>>,
   timestamp |-> [wall |-> 0, tzinfo |-> "timestamp"]]

UtcDay(t) == t \div DayLen

\* datetime.now().isoformat(): the host's wall clock, no offset in the text
LocalIsoNow(clock, offset) == [wall |-> clock + offset, tzinfo |-> "naive"]

\* datetime.fromisoformat + replace(tzinfo=utc) when naive + .date()
ParsedDate(ts) == ts.wall \div DayLen

\* rows older code wrote: one too short to reach the timestamp column, one
\* whose timestamp datetime.fromisoformat rejects (ValueError)
ShortRow(key) ==
  [header |-> FALSE, action_key |-> key, timestamp |-> [wall |-> 0, tzinfo |-> "missing"]]
GarbledRow(key) ==
  [header |-> FALSE, action_key |-> key, timestamp |-> [wall |-> 0, tzinfo |-> "garbled"]]
\* the row is long enough and its timestamp parses
Readable(ts) == ts.tzinfo = "naive"

\* load_processed_action_keys: rows after the header dated today (UTC)
load_processed_action_keys(f, clock) ==
  LET today_date == UtcDay(clock)
  IN  {f[i].action_key :
         i \in {j \in 2..Len(f) : /\ Readable(f[j].timestamp)
                                  /\ ParsedDate(f[j].timestamp) = today_date}}

file_exists_and_not_empty_never(f) == FALSE
file_exists_and_not_empty(f) == Len(f) > 0

\* the write as it would be with the file opened in mode 'w'
save_processed_action_key_truncating(f, key, ts) ==
  <<HeaderRow, Row(key, ts)>>
\* save_processed_action_key when the append succeeds: header first on a new
\* or empty file, then the row
save_processed_action_key(f, key, ts) ==
  Append(IF file_exists_and_not_empty(f) THEN f ELSE Append(f, HeaderRow), Row(key, ts))

(***************************************************************************)
(* Initial state: TwitterOrchestrator.__init__ and the start of run()      *)
(***************************************************************************)
\* shape of the accounts entry, enabled features, and how many profiles /
\* keywords the account has configured
Policy(shape, feats, nsrc) == [shape |-> shape, feats |-> feats, nsrc |-> nsrc]
Policies == {Policy(sh, F, n) : sh \in Shapes, F \in SUBSET FeatureSet, n \in 1..NumSources}

\* locals of _process_account before its first statement
TaskInit ==
  [pc |-> "loaded", feat |-> 0, src |-> 0, batch |-> <<>>,
   made |-> 0, likes |-> 0, kind |-> NONE, key |-> NoKey, delay |-> 0,
   ended |-> "no"]

ObsInit ==
  [checked  |-> NoKey,   \* key the membership test of this iteration found absent
   acting   |-> NoKey,   \* (kind, account, candidate) the Executor is invoked for
   result   |-> NONE,    \* outcome of the account's last Executor invocation
   lastSucc |-> NoKey,   \* key of the account's last successful invocation
   recorded |-> FALSE,   \* that invocation was made by a loop that records
   inflight |-> {},      \* awaited operations begun and not completed
   caught   |-> FALSE,   \* the top-level except clause ran
   setupOk  |-> FALSE,   \* the driver was established
   completed |-> FALSE,  \* the account went through all its feature loops
   hits |-> 0]           \* successful invocations that count against the cap of
                         \* the loop the account is in

HistInit(f, clock, saved, instants) ==
  [loaded    |-> load_processed_action_keys(f, clock), \* keys loaded at start
   startedAt |-> clock,                                \* instant of the start
   rowsAtStart |-> Len(f),                             \* rows the start found
   savedOk   |-> saved,   \* rows whose save returned True, in call order
   writtenAt |-> instants, \* UTC instant each row of the log was written at
   execd     |-> {},      \* keys of this run's successful invocations
   dup       |-> {}]      \* keys with two successful invocations in this run

\* policies of the run specification
\* (an account that is not processed is listed once, without features)
Idle(q) == q.shape # "active" /\ q.feats = {} /\ q.nsrc = 1
Light(q) ==
  /\ q.shape = "active" /\ q.nsrc = 1
  /\ Cardinality(q.feats) = 1 /\ q.feats \subseteq {"reply", "retweet", "like"}
RunPolicies ==
  {p \in [Accounts -> Policies] :
     \/ /\ p["acct1"].shape = "active" /\ Cardinality(p["acct1"].feats) = 1
        /\ ("competitor" \in p["acct1"].feats => p["acct1"].nsrc = 1)
        /\ Idle(p["acct2"])
     \/ /\ p["acct1"].shape = "active" /\ Cardinality(p["acct1"].feats) = 2
        /\ "competitor" \notin p["acct1"].feats
        /\ p["acct1"].nsrc = 1
        /\ Idle(p["acct2"])
     \/ Light(p["acct1"]) /\ Light(p["acct2"])}

\* policies of the restart specification: one account liking, one inactive
RestartPolicies ==
  {p \in [Accounts -> Policies] :
     /\ p["acct1"] = Policy("active", {"like"}, 1)
     /\ p["acct2"] = Policy("inactive", {}, 1)}

\* policies of the skip specification: one account at work, the other with
\* is_active false and any features and sources configured
SkipPolicies ==
  {p \in [Accounts -> Policies] :
     /\ p["acct1"].shape = "active" /\ p["acct1"].nsrc = 1
     /\ \/ Cardinality(p["acct1"].feats) = 1
        \/ Cardinality(p["acct1"].feats) = 2 /\ "competitor" \notin p["acct1"].feats
     /\ p["acct2"].shape = "inactive"}

\* delay_between_accounts_seconds as settings.json gives it: asyncio.sleep
\* raises TypeError when it is not a number
DelayKinds == {"number", "text"}

\* no library call is followed on its own in the scheduler specifications
GenIdle ==
  [order |-> <<>>, pref |-> NONE, clients |-> {}, deployment |-> FALSE,
   behaviour |-> <<>>, services_to_try |-> <<>>, result |-> <<"idle", NONE, <<>>>>]
ExIdle == [body |-> <<>>, fenced |-> <<"idle", <<>>>>, prose |-> <<"idle", <<>>>>,
           smart |-> <<"idle", <<>>>>]
NoData == <<"none", <<>>>>
StIdle == [max_retries |-> 0, use_openai_json_mode |-> FALSE, response_format |-> FALSE,
           attempt |-> 0, calls |-> <<>>, last_err |-> NONE,
           result |-> [returned |-> FALSE, data |-> NoData, err |-> NONE]]
HvIdle == [max_tweets |-> 0, stop_if_no_new_tweets_count |-> 0, pc |-> "idle",
           scraped_tweets |-> <<>>, scroll_attempts_with_no_new_tweets |-> 0,
           passes |-> 0, idle_passes |-> 0, errored |-> FALSE, at_error |-> 0,
           last_scroll |-> NONE, seen_tweet_ids |-> {}, last_shown |-> {},
           last_bad |-> {}]
\* an optional setting is the empty set (None, key absent) or holds its value
Unset == {}
NoActionConfig ==
  [present |-> FALSE, enable_engagement_decision |-> Unset,
   use_sentiment_in_decision |-> Unset, decision_quote_min |-> Unset,
   decision_retweet_min |-> Unset, decision_repost_min |-> Unset,
   competitor_post_interaction_type |-> "repost"]
NoDecisionCfg ==
  [enabled |-> Unset, use_sentiment |-> Unset, quote_min |-> Unset,
   retweet_min |-> Unset, repost_min |-> Unset]
NoStructured == [kind |-> "none", recommended_action |-> NONE, relevance |-> 0]
DcIdle ==
  [pc |-> "idle", acc_ac |-> NoActionConfig, engagement_decision_cfg |-> NoDecisionCfg,
   decision_enabled |-> FALSE, use_sentiment |-> FALSE,
   quote_min |-> 0, retweet_min |-> 0, repost_min |-> 0,
   structured |-> NoStructured, rel |-> 0, sentiment |-> NONE,
   action |-> NONE, tier |-> NONE]
LdIdle == [file |-> <<>>, instants |-> <<>>, offset |-> 0, clock |-> 0,
           processed_keys |-> {}, pc |-> "idle"]
\* a dict of keyword parameters: each name is absent (Unset) or holds a value
NoParams == [k \in {"model_name", "model", "max_tokens", "temperature"} |-> {}]
PmIdle ==
  [service_name |-> NONE, client |-> FALSE, default_params |-> NoParams,
   configured_model |-> {}, default_max_tokens |-> {}, call_params |-> NoParams,
   pc |-> "idle", final_params |-> NoParams, model_to_use |-> {},
   invoked_model |-> {}, outcome |-> NONE]
\* MetricsRecorder._load_summary on a new account: every counter 0, no event
CounterNames == {"posts", "replies", "retweets", "quote_tweets", "likes", "errors"}
EventActions == {"post", "reply", "retweet", "quote_tweet", "like"}
MtIdle ==
  [counters |-> [c \in CounterNames |-> 0],
   events |-> [e \in EventActions \X {"success", "failure"} |-> 0],
   actions |-> 0, last |-> <<NONE, FALSE>>]
LibIdle ==
  /\ gen = GenIdle /\ ex = ExIdle /\ st = StIdle /\ hv = HvIdle /\ dc = DcIdle
  /\ ld = LdIdle /\ pm = PmIdle /\ mt = MtIdle

InitWith(policies, offsets, delays) ==
  /\ LibIdle
  /\ cfg \in policies
  /\ global_settings \in [delay_between_accounts_seconds : delays]
  /\ loop_thread = NONE
  /\ tz \in offsets
  /\ now = DayLen
  /\ log = <<>>
  /\ keys = load_processed_action_keys(log, now)
  /\ task = [a \in Accounts |-> TaskInit]
  /\ driver = [a \in Accounts |-> "none"]
  /\ runState = "gathering"
  /\ results = [a \in Accounts |-> "pending"]
  /\ runs = 1
  /\ hist = HistInit(log, now, <<>>, <<>>)
  /\ obs = [a \in Accounts |-> ObsInit]

Init == InitWith(RunPolicies, {0}, DelayKinds)
InitRestart == InitWith(RestartPolicies, TzOffsets, {"number"})
InitSkip == InitWith(SkipPolicies, {0}, {"number"})

(***************************************************************************)
(* _process_account: one task per account                                  *)
(***************************************************************************)
FeatureOf(a) == Features[task[a].feat]
Candidate(a) == Head(task[a].batch)

\* an awaited operation begins / the await returns
Begin(s, op) == s \cup {op}
AwaitLeavesRunning(s, op) == s
AwaitCompleted(s, op) == s \ {op}

\* the finally clause: close_driver() when a session is open, then the
\* trailing asyncio.sleep(delay_between_accounts_seconds), which suspends the
\* task or, given a delay that is not a number, raises out of the coroutine
close_driver_skipped(d) == d
close_driver(d) == IF d = "open" THEN "closed" ELSE d
Finally(t) ==
  IF global_settings.delay_between_accounts_seconds = "number"
  THEN [t EXCEPT !.pc = "final_sleep"]
  ELSE [t EXCEPT !.pc = "finished", !.ended = "raised"]

\* lines 88-120: normalise the entry and validate it
Validate(a) ==
  /\ runState = "gathering"
  /\ task[a].pc = "loaded"
  /\ task' = [task EXCEPT ![a] =
       CASE cfg[a].shape = "malformed" -> [@ EXCEPT !.pc = "finished", !.ended = "raised"]
         [] cfg[a].shape = "invalid"   -> [@ EXCEPT !.pc = "finished", !.ended = "returned"]
         [] OTHER                      -> [@ EXCEPT !.pc = "validated"]]
  /\ UNCHANGED <<libvars, cfg, global_settings, loop_thread, driver, keys, log, now, tz, runState, results, runs, hist, obs>>

\* lines 122-155: is_active test, then BrowserManager, scraper, publisher,
\* engagement (the first get_driver() starts the browser or raises)
\* the same step without the is_active test
ActivateInactiveToo(a) ==
  /\ runState = "gathering"
  /\ task[a].pc = "validated"
  /\ \E started \in BOOLEAN :
       IF started
       THEN /\ task' = [task EXCEPT ![a].pc = "next"]
            /\ driver' = [driver EXCEPT ![a] = "open"]
            /\ obs' = [obs EXCEPT ![a].setupOk = TRUE]
       ELSE /\ task' = [task EXCEPT ![a] = Finally(@)]
            /\ driver' = [driver EXCEPT ![a] = close_driver(@)]
            /\ obs' = [obs EXCEPT ![a].caught = TRUE]
  /\ UNCHANGED <<libvars, cfg, global_settings, loop_thread, keys, log, now, tz, runState, results, runs, hist>>

Activate(a) ==
  /\ runState = "gathering"
  /\ task[a].pc = "validated"
  /\ IF cfg[a].shape = "inactive"
     THEN /\ task' = [task EXCEPT ![a].pc = "finished", ![a].ended = "returned"]
          /\ UNCHANGED <<driver, obs>>
     ELSE \E started \in BOOLEAN :
            IF started
            THEN /\ task' = [task EXCEPT ![a].pc = "next"]
                 /\ driver' = [driver EXCEPT ![a] = "open"]
                 /\ obs' = [obs EXCEPT ![a].setupOk = TRUE]
            ELSE /\ task' = [task EXCEPT ![a] = Finally(@)]
                 /\ driver' = [driver EXCEPT ![a] = close_driver(@)]
                 /\ obs' = [obs EXCEPT ![a].caught = TRUE]
  /\ UNCHANGED <<libvars, cfg, global_settings, loop_thread, keys, log, now, tz, runState, results, runs, hist>>

\* index of the next enabled feature after feature i, 0 when there is none
NextFeature(a, i) ==
  LET later == {g \in (i + 1)..Len(Features) : Features[g] \in cfg[a].feats}
  IN  IF later = {} THEN 0 ELSE CHOOSE g \in later : \A h \in later : g <= h

\* the for loop over profiles / keywords has another source to scrape
MoreSources(a) ==
  /\ task[a].feat > 0
  /\ task[a].src < cfg[a].nsrc
  /\ (FeatureOf(a) = "like" => task[a].likes < max_likes_per_run)

\* head of a source loop: take the next profile or keyword of the feature,
\* else the next enabled feature, and start the scrape in a worker thread;
\* with nothing left, leave the try block through the finally clause
Advance(a) ==
  /\ runState = "gathering"
  /\ task[a].pc = "next"
  /\ IF MoreSources(a)
     THEN /\ task' = [task EXCEPT ![a] = [@ EXCEPT !.pc = "harvest", !.src = @ + 1,
                         !.batch = <<>>, !.made = 0]]
          /\ obs' = [obs EXCEPT ![a].inflight = Begin(@, "harvest"),
                                ![a].hits = IF FeatureOf(a) = "like" THEN @ ELSE 0]
          /\ UNCHANGED driver
     ELSE IF NextFeature(a, task[a].feat) # 0
     THEN /\ task' = [task EXCEPT ![a] = [@ EXCEPT !.pc = "harvest",
                         !.feat = NextFeature(a, task[a].feat), !.src = 1,
                         !.batch = <<>>, !.made = 0, !.likes = 0]]
          /\ obs' = [obs EXCEPT ![a].inflight = Begin(@, "harvest"), ![a].hits = 0]
          /\ UNCHANGED driver
     ELSE /\ task' = [task EXCEPT ![a] = Finally(@)]
          /\ driver' = [driver EXCEPT ![a] = close_driver(@)]
          /\ obs' = [obs EXCEPT ![a].completed = TRUE]
  /\ UNCHANGED <<libvars, cfg, global_settings, loop_thread, keys, log, now, tz, runState, results, runs, hist>>

\* await asyncio.to_thread(scraper.scrape_tweets_...) returns its list
HarvestDone(a) ==
  /\ runState = "gathering"
  /\ task[a].pc = "harvest"
  /\ \E found \in HarvestResults(FeatureOf(a)) :
       task' = [task EXCEPT ![a].pc = "cand", ![a].batch = found]
  /\ obs' = [obs EXCEPT ![a].inflight = AwaitCompleted(@, "harvest")]
  /\ UNCHANGED <<libvars, cfg, global_settings, loop_thread, driver, keys, log, now, tz, runState, results, runs, hist>>

\* the cap test made with > in place of >=
CapReachedLate(a) ==
  CASE FeatureOf(a) = "competitor" -> task[a].made > max_posts_per_competitor_run
    [] FeatureOf(a) = "reply"      -> task[a].made > max_replies_per_keyword_run
    [] FeatureOf(a) = "retweet"    -> task[a].made > max_retweets_per_keyword_run
    [] FeatureOf(a) = "like"       -> task[a].likes > max_likes_per_run

\* the loop's cap test at the head of an iteration (break)
CapReached(a) ==
  CASE FeatureOf(a) = "competitor" -> task[a].made >= max_posts_per_competitor_run
    [] FeatureOf(a) = "reply"      -> task[a].made >= max_replies_per_keyword_run
    [] FeatureOf(a) = "retweet"    -> task[a].made >= max_retweets_per_keyword_run
    [] FeatureOf(a) = "like"       -> task[a].likes >= max_likes_per_run

\* feature loops that call save_processed_action_key and add the key
\* (competitor l.261, reply l.364, like l.472; the keyword-retweet loop does not)
RecordsLedger(f) == f \in {"competitor", "reply", "like"}

\* the action kind of the loops that do not call _decide_competitor_action
FixedKind(f) ==
  CASE f = "reply" -> "reply" [] f = "retweet" -> "retweet" [] f = "like" -> "like"
    [] OTHER -> NONE

\* the for loop takes the next scraped tweet
NextCandidate(t) ==
  [t EXCEPT !.pc = "cand", !.batch = Tail(@), !.kind = NONE, !.key = NoKey, !.delay = 0]
SkipCandidate(a) == task' = [task EXCEPT ![a] = NextCandidate(@)]

\* history of the previous iteration is dropped when the next one starts
IterationStart(o) ==
  [o EXCEPT !.checked = NoKey, !.acting = NoKey, !.result = NONE,
            !.lastSucc = NoKey, !.recorded = FALSE]

\* head of one iteration over the scraped tweets: end of list or cap (break);
\* the reply and like loops render the key and test the ledger first
Consider(a) ==
  /\ runState = "gathering"
  /\ task[a].pc = "cand"
  /\ IF task[a].batch = <<>> \/ CapReached(a)
     THEN /\ task' = [task EXCEPT ![a].pc = "next", ![a].batch = <<>>]
          /\ obs' = [obs EXCEPT ![a] = IterationStart(@)]
     ELSE LET f == FeatureOf(a)
              early == f \in {"reply", "like"}
              k == IF early THEN ActionKey(FixedKind(f), a, Candidate(a)) ELSE NoKey
          IN  IF early /\ k \in keys
              THEN /\ SkipCandidate(a)
                   /\ obs' = [obs EXCEPT ![a] = IterationStart(@)]
              ELSE /\ task' = [task EXCEPT ![a].pc = "decide", ![a].key = k]
                   /\ obs' = [obs EXCEPT ![a] = [IterationStart(@) EXCEPT !.checked = k,
                                                    !.inflight = Begin(@, "decide")]]
  /\ UNCHANGED <<libvars, cfg, global_settings, loop_thread, driver, keys, log, now, tz, runState, results, runs, hist>>

\* the awaited filters and decision of the iteration return: the candidate
\* is skipped (continue) or the Executor is about to be invoked
Decide(a) ==
  /\ runState = "gathering"
  /\ task[a].pc = "decide"
  /\ LET f == FeatureOf(a)
         c == Candidate(a)
     IN  IF f = "competitor"
         THEN \E d \in InteractionTypes \cup {"skip", UnknownType} :
                LET k == ActionKey(d, a, c)
                IN  IF d \in {"skip", UnknownType} \/ k \in keys
                    THEN /\ SkipCandidate(a)
                         /\ obs' = [obs EXCEPT ![a].inflight = AwaitCompleted(@, "decide")]
                    ELSE /\ task' = [task EXCEPT ![a].pc = "call", ![a].kind = d, ![a].key = k]
                         /\ obs' = [obs EXCEPT ![a].checked = k, ![a].acting = k,
                              ![a].inflight = Begin(AwaitCompleted(@, "decide"), "exec")]
         ELSE \E skip \in BOOLEAN :
                IF skip
                THEN /\ SkipCandidate(a)
                     /\ obs' = [obs EXCEPT ![a].inflight = AwaitCompleted(@, "decide")]
                ELSE /\ task' = [task EXCEPT ![a].pc = "call", ![a].kind = FixedKind(f)]
                     /\ obs' = [obs EXCEPT ![a].acting = ActionKey(FixedKind(f), a, c),
                          ![a].inflight = Begin(AwaitCompleted(@, "decide"), "exec")]
  /\ UNCHANGED <<libvars, cfg, global_settings, loop_thread, driver, keys, log, now, tz, runState, results, runs, hist>>

\* the Executor entry point (an async def) reaches its browser work: like_tweet,
\* do_reply, do_retweet_or_quote and the composer drive Selenium and call
\* time.sleep directly in the coroutine, on the event-loop thread; only the
\* scrapes go through asyncio.to_thread
Invoke(a) ==
  /\ runState = "gathering"
  /\ task[a].pc = "call"
  /\ task' = [task EXCEPT ![a].pc = "exec"]
  /\ loop_thread' = a
  /\ UNCHANGED <<libvars, cfg, global_settings, driver, keys, log, now, tz, runState, results, runs, hist, obs>>

\* what an Executor entry point can do: like_tweet catches every exception;
\* post, reply and retweet/quote call get_driver() outside their try block
ExecOutcomes(kind) ==
  IF kind = "like" THEN {"success", "failure"} ELSE {"success", "failure", "raise"}

\* `if interaction_success:` / `if reply_success:` / `if like_success:`
RecordOnAnyOutcome(r) == TRUE
RecordOn(r) == r = "success"

\* random.uniform(lo, hi) over the delay units of the model: the like loop
\* halves both ends (min / 2, max / 2), the other loops pass them as they are
Uniform(lo, hi) == lo..hi
SleepDraws(f) ==
  IF f = "like"
  THEN Uniform((min_delay_between_actions_seconds + 1) \div 2,
               max_delay_between_actions_seconds \div 2)
  ELSE Uniform(min_delay_between_actions_seconds, max_delay_between_actions_seconds)

\* the Executor call returns or raises; on success the loop saves the key,
\* adds it to the in-memory set (whatever save returned), counts the action
\* and goes to sleep; an exception leaves through except and finally
Execute(a) ==
  /\ runState = "gathering"
  /\ task[a].pc = "exec"
  /\ \E r \in ExecOutcomes(task[a].kind), written \in BOOLEAN :
     \E d \in IF r = "success" THEN SleepDraws(FeatureOf(a)) ELSE {0} :
       LET f == FeatureOf(a)
           k == task[a].key
           record == RecordsLedger(f) /\ RecordOn(r)
           append == record /\ written
           counted == IF f = "competitor" THEN task[a].kind # "like" ELSE f # "like"
       IN  /\ (~record => written)
           /\ task' = [task EXCEPT ![a] =
                CASE r = "success" ->
                       [@ EXCEPT !.pc = "sleep", !.delay = d,
                                 !.made = IF counted THEN @ + 1 ELSE @,
                                 !.likes = IF f = "like" THEN @ + 1 ELSE @]
                  [] r = "failure" -> NextCandidate(@)
                  [] r = "raise" -> Finally(@)]
           /\ driver' = [driver EXCEPT ![a] = IF r = "raise" THEN close_driver(@) ELSE @]
           /\ log' = IF append THEN save_processed_action_key(log, k, LocalIsoNow(now, tz))
                     ELSE log
           /\ keys' = IF record THEN keys \cup {k} ELSE keys
           /\ hist' = [hist EXCEPT
                !.savedOk = IF append THEN Append(@, Row(k, LocalIsoNow(now, tz))) ELSE @,
                !.writtenAt = IF append
                              THEN @ \o [i \in 1..(Len(log') - Len(log)) |-> now] ELSE @,
                !.execd = IF r = "success" THEN @ \cup {obs[a].acting} ELSE @,
                !.dup = IF r = "success" /\ obs[a].acting \in hist.execd
                        THEN @ \cup {obs[a].acting} ELSE @]
           /\ obs' = [obs EXCEPT ![a].result = r,
                ![a].lastSucc = IF r = "success" THEN obs[a].acting ELSE @,
                ![a].recorded = IF r = "success" THEN RecordsLedger(f) ELSE @,
                ![a].caught = (r = "raise") \/ @,
                ![a].hits = IF r = "success" /\ (f = "competitor" => task[a].kind # "like")
                            THEN @ + 1 ELSE @,
                ![a].inflight = AwaitCompleted(@, "exec")]
  /\ loop_thread' = NONE
  /\ UNCHANGED <<libvars, cfg, global_settings, now, tz, runState, results, runs>>

\* await asyncio.sleep(random.uniform(min_delay, max_delay)) returns
Wake(a) ==
  /\ runState = "gathering"
  /\ task[a].pc = "sleep"
  /\ SkipCandidate(a)
  /\ UNCHANGED <<libvars, cfg, global_settings, loop_thread, driver, keys, log, now, tz, runState, results, runs, hist, obs>>

\* the sleep that ends the finally clause returns: the coroutine returns
FinalWake(a) ==
  /\ runState = "gathering"
  /\ task[a].pc = "final_sleep"
  /\ task' = [task EXCEPT ![a].pc = "finished", ![a].ended = "returned"]
  /\ UNCHANGED <<libvars, cfg, global_settings, loop_thread, driver, keys, log, now, tz, runState, results, runs, hist, obs>>

(***************************************************************************)
(* run(): asyncio.gather over the tasks, with return_exceptions=True       *)
(***************************************************************************)
return_exceptions_off == FALSE
return_exceptions == TRUE

\* gather returns when every task has ended; without return_exceptions it
\* raises as soon as one task raises
GatherReturns ==
  \/ \A a \in Accounts : task[a].ended # "no"
  \/ ~return_exceptions /\ \E a \in Accounts : task[a].ended = "raised"

\* `isinstance(result, Exception)` over the gathered results
GatherResultAlwaysSuccess(ended) == "success"
GatherResult(ended) == IF ended = "raised" THEN "error" ELSE "success"

\* the reporting loop of run() reads self.accounts_data[i].get(...): an entry
\* that is not a mapping has no get, and run() leaves with AttributeError
ReportRaises == \E a \in Accounts : cfg[a].shape = "malformed"

\* gather hands run() the results; run() reports them and returns, or raises
\* while reporting; asyncio.run cancels what is left
RunFinish ==
  /\ runState = "gathering"
  /\ GatherReturns
  /\ runState' = IF ReportRaises THEN "crashed" ELSE "done"
  /\ results' = [a \in Accounts |->
       IF task[a].ended = "no" THEN "pending" ELSE GatherResult(task[a].ended)]
  /\ task' = [a \in Accounts |->
       IF task[a].ended = "no" THEN [task[a] EXCEPT !.pc = "cancelled"] ELSE task[a]]
  /\ UNCHANGED <<libvars, cfg, global_settings, loop_thread, driver, keys, log, now, tz, runs, hist, obs>>

(***************************************************************************)
(* Environment of the restart specification                                *)
(***************************************************************************)
Tick ==
  /\ now < MaxClock
  /\ now' = now + 1
  /\ UNCHANGED <<libvars, cfg, global_settings, loop_thread, task, driver, keys, log, tz, runState, results, runs, hist, obs>>

\* a new process: __init__ loads today's keys from the file the previous
\* process left, run() starts one task per account
Restart ==
  /\ runState # "gathering"
  /\ runs < MaxRuns
  /\ runs' = runs + 1
  /\ keys' = load_processed_action_keys(log, now)
  /\ task' = [a \in Accounts |-> TaskInit]
  /\ driver' = [a \in Accounts |-> "none"]
  /\ runState' = "gathering"
  /\ results' = [a \in Accounts |-> "pending"]
  /\ hist' = HistInit(log, now, hist.savedOk, hist.writtenAt)
  /\ obs' = [a \in Accounts |-> ObsInit]
  /\ loop_thread' = NONE
  /\ UNCHANGED <<libvars, cfg, global_settings, log, now, tz>>

\* the event loop resumes a task only when no blocking call holds its thread
LoopFree(a) == loop_thread \in {NONE, a}

Step(a) ==
  /\ LoopFree(a)
  /\ \/ Validate(a) \/ Activate(a) \/ Advance(a) \/ HarvestDone(a)
     \/ Consider(a) \/ Decide(a) \/ Invoke(a) \/ Execute(a) \/ Wake(a) \/ FinalWake(a)

Next == (\E a \in Accounts : Step(a)) \/ RunFinish
NextRestart == Next \/ Tick \/ Restart

(***************************************************************************)
(* Interrupt: asyncio.run cancels the main task, gather cancels the        *)
(* account tasks, and CancelledError is raised in each at the await it is  *)
(* suspended in                                                            *)
(***************************************************************************)
\* positions of _process_account that are awaits
SuspensionPoints == {"harvest", "decide", "call", "sleep", "final_sleep"}

\* Ctrl-C while every task is suspended or not yet started
Interrupt ==
  /\ runState = "gathering"
  /\ loop_thread = NONE
  /\ \A a \in Accounts : task[a].pc \in SuspensionPoints \cup {"loaded", "finished"}
  /\ \E a \in Accounts : task[a].ended = "no"
  /\ runState' = "cancelling"
  /\ UNCHANGED <<libvars, cfg, global_settings, loop_thread, task, driver, keys, log, now, tz,
                 results, runs, hist, obs>>

\* CancelledError is a BaseException: `except Exception` (l.488) lets it pass,
\* the finally clause closes the driver and awaits its sleep; a task that
\* never started, or that was in that last sleep, just ends
Cancel(a) ==
  /\ runState = "cancelling"
  /\ task[a].ended = "no"
  /\ task[a].pc \in SuspensionPoints \cup {"loaded"}
  /\ IF task[a].pc \in {"loaded", "final_sleep"}
     THEN /\ task' = [task EXCEPT ![a].pc = "finished", ![a].ended = "cancelled"]
          /\ UNCHANGED driver
     ELSE /\ task' = [task EXCEPT ![a] =
               IF Finally(@).pc = "final_sleep"
               THEN [@ EXCEPT !.pc = "cancel_sleep"] ELSE Finally(@)]
          /\ driver' = [driver EXCEPT ![a] = close_driver(@)]
  /\ obs' = [obs EXCEPT ![a].inflight = {}]
  /\ UNCHANGED <<libvars, cfg, global_settings, loop_thread, keys, log, now, tz, runState,
                 results, runs, hist>>

\* the sleep of the finally clause returns and CancelledError ends the task
CancelWake(a) ==
  /\ runState = "cancelling"
  /\ task[a].pc = "cancel_sleep"
  /\ task' = [task EXCEPT ![a].pc = "finished", ![a].ended = "cancelled"]
  /\ UNCHANGED <<libvars, cfg, global_settings, loop_thread, driver, keys, log, now, tz, runState,
                 results, runs, hist, obs>>

\* every task has ended: asyncio.run raises KeyboardInterrupt, __main__ logs it
InterruptFinish ==
  /\ runState = "cancelling"
  /\ \A a \in Accounts : task[a].ended # "no"
  /\ runState' = "interrupted"
  /\ UNCHANGED <<libvars, cfg, global_settings, loop_thread, task, driver, keys, log, now, tz,
                 results, runs, hist, obs>>

NextInterrupt ==
  \/ Next
  \/ Interrupt
  \/ \E a \in Accounts : Cancel(a)
  \/ \E a \in Accounts : CancelWake(a)
  \/ InterruptFinish

Spec == Init /\ [][Next]_vars
SpecInterrupt == Init /\ [][NextInterrupt]_vars
SpecRestart == InitRestart /\ [][NextRestart]_vars
SpecSkip == InitSkip /\ [][Next]_vars

TypeOK ==
  /\ \A a \in Accounts : task[a].pc \in
       {"loaded", "validated", "next", "harvest", "cand", "decide", "call", "exec",
        "sleep", "final_sleep", "cancel_sleep", "finished", "cancelled"}
  /\ runState \in {"gathering", "done", "crashed", "cancelling", "interrupted"}
  /\ global_settings.delay_between_accounts_seconds \in DelayKinds

(***************************************************************************)
(* Properties                                                              *)
(***************************************************************************)
RowsOf(f) == {i \in 1..Len(f) : ~f[i].header}
KeysOf(a) == {k \in keys : k[2] = a}

\* C1: within one run no ActionKey (kind, account, candidate) has two
\* successful Executor invocations, in any feature loop and for any harvest
\* result (the same candidate returned by two keywords or two profiles).
C1_AtMostOncePerKey == hist.dup = {}

\* C2: every Executor invocation follows a membership test of its ActionKey
\* that found the key absent, and a successful invocation is followed by the
\* record of that key before the account handles its next candidate.
C2_CheckedBeforeRecordedAfter ==
  \A a \in Accounts :
    /\ task[a].pc = "exec" => obs[a].checked = obs[a].acting
    /\ task[a].pc = "sleep" => obs[a].lastSucc \in keys

\* C3: when an Executor action returns failure, neither the persisted log
\* nor the in-memory key set changes: a key enters the ledger only after its
\* action returned success.
C3_FailureLeavesLedger ==
  [][\A a \in Accounts :
       (task[a].pc = "exec" /\ task'[a].pc # "exec" /\ obs'[a].result # "success")
         => (log' = log /\ keys' = keys)]_vars

C3_Witness ==
  \E a \in Accounts :
    /\ task[a].pc = "cand"
    /\ obs[a].result = "failure"
    /\ obs[a].acting # NoKey
    /\ obs[a].checked = obs[a].acting
    /\ obs[a].acting \notin keys

\* C4: every key the scheduler recorded at an instant of UTC day D is loaded
\* by every later process start on the same UTC day D, whatever the host's
\* time zone.
C4_SameDayKeysLoaded ==
  \A i \in RowsOf(log) :
    (i <= hist.rowsAtStart /\ UtcDay(hist.writtenAt[i]) = UtcDay(hist.startedAt))
      => log[i].action_key \in hist.loaded

\* C5: every ActionKey added to the in-memory set during this run has a row
\* durably written to the log (write-then-add).
C5_WriteThenAdd ==
  \A k \in keys \ hist.loaded : \E i \in RowsOf(log) : log[i].action_key = k

\* C6: whatever the interleaving of the account tasks, the log is the header
\* row once, followed by the complete row of every record whose write
\* succeeded, in call order: no row is interleaved, merged or lost.
C6_SerializedWrites ==
  log = IF hist.savedOk = <<>> THEN <<>> ELSE <<HeaderRow>> \o hist.savedOk

\* two account tasks have recorded at the same instant
C6_Witness ==
  \E i, j \in RowsOf(log) :
    /\ log[i].action_key[2] = "acct1"
    /\ log[j].action_key[2] = "acct2"
    /\ log[i].timestamp = log[j].timestamp
    /\ hist.writtenAt[i] = hist.writtenAt[j]

\* C7: after an Executor action returned failure or raised, the account loop
\* is at its next candidate (and goes on to the remaining candidates and
\* features).
C7_LoopContinuesAfterError ==
  \A a \in Accounts :
    obs[a].result \in {"failure", "raise"} => task[a].pc = "cand"

\* C8: a failure confined to one account (entry not parsable, validation
\* error, driver not established, exception in its loop) lets every other
\* account run to completion: when run() returns every task has finished and
\* every account that met no failure of its own went through all its feature
\* loops; and the failing step changes nothing of any other account.
FailsIn(a) ==
  /\ task[a].ended = "no"
  /\ \/ task'[a].ended = "raised"
     \/ task'[a].pc = "finished" /\ cfg[a].shape = "invalid"
     \/ ~obs[a].caught /\ obs'[a].caught
C8_FailuresIsolated ==
  /\ [](runState # "gathering" =>
          \A a \in Accounts :
            /\ task[a].pc = "finished"
            /\ (obs[a].setupOk /\ ~obs[a].caught) => obs[a].completed)
  /\ [][\A a \in Accounts : FailsIn(a) =>
          \A b \in Accounts \ {a} :
            /\ task'[b] = task[b] /\ obs'[b] = obs[b] /\ driver'[b] = driver[b]
            /\ {k \in keys' : k[2] = b} = KeysOf(b)]_vars

C8_Witness ==
  \E a, b \in Accounts :
    /\ a # b
    /\ runState = "done"
    /\ obs[a].caught /\ ~obs[a].completed
    /\ obs[b].completed
    /\ \E k \in hist.execd : k[2] = b

\* C9: run() returns only after every task has finished, with one outcome per
\* account, an error exactly for the accounts whose coroutine ended by
\* raising; an account only moves forward through Loaded, Validated, Running,
\* Finished and never leaves Finished.
PhaseRank(pcv) ==
  CASE pcv = "loaded" -> 1
    [] pcv = "validated" -> 2
    [] pcv = "finished" -> 4
    [] OTHER -> 3
MaxProviders == 3     \* longest service_preference_order

\* service names: the three the generator knows and one it does not
KnownServices == {"azure", "openai", "gemini"}
ServiceNames == KnownServices \cup {"other"}

\* what a provider's SDK call does: raises, returns "" or returns a text
Behaviours == {"raise", "empty", "text"}

\* results of generate_text: None, or the string a provider returned
NoneResult(called) == <<"none", NONE, called>>
Returned(kind, name, called) == <<kind, name, called>>

\* lines 31-35: the preferred service is moved, or inserted, to the front
RECURSIVE Without(_, _)
Without(list, x) ==
  IF list = <<>> THEN <<>>
  ELSE IF Head(list) = x THEN Tail(list)
  ELSE <<Head(list)>> \o Without(Tail(list), x)
ServicesToTry(order, pref) ==
  IF pref = NONE THEN order ELSE <<pref>> \o Without(order, pref)

\* the branch of the if/elif chain that calls the provider is taken
HasHandle(g, name) ==
  /\ name \in KnownServices
  /\ name \in g.clients

\* except Exception: logged, the for loop goes on with the next service
AfterErrorAbort(rest, called) == NoneResult(called)
AfterError(rest, called) == rest

\* the for loop over services_to_try; called is the list of providers whose
\* SDK call was made
RECURSIVE TryServices(_, _, _)
TryServices(g, list, called) ==
  IF list = <<>> THEN NoneResult(called)
  ELSE LET name == Head(list)
           rest == Tail(list)
       IN  IF ~HasHandle(g, name) THEN TryServices(g, rest, called)
           ELSE IF name = "azure" /\ ~g.deployment THEN TryServices(g, rest, called)
           ELSE LET now_called == Append(called, name)
                IN  IF g.behaviour[name] = "raise"
                    THEN AfterError(TryServices(g, rest, now_called), now_called)
                    ELSE Returned(g.behaviour[name], name, now_called)

generate_text(g) == TryServices(g, ServicesToTry(g.order, g.pref), <<>>)

\* llm_settings['service_preference_order']: any list of names, taken from
\* settings.json as it is (a name may be listed twice)
ConfiguredOrders == SeqsUpTo(ServiceNames, MaxProviders)

GenInputs ==
  [order : ConfiguredOrders,
   pref : ServiceNames \cup {NONE},
   clients : SUBSET KnownServices,
   deployment : BOOLEAN,
   behaviour : [KnownServices -> Behaviours],
   services_to_try : {<<>>},
   result : {<<"pending", NONE, <<>>>>}]

\* the scheduler is left as it is before run() while a library call is followed
SchedParked ==
  /\ cfg = [a \in Accounts |-> Policy("inactive", {}, 1)]
  /\ global_settings = [delay_between_accounts_seconds |-> "number"]
  /\ loop_thread = NONE
  /\ tz = 0 /\ now = DayLen /\ log = <<>> /\ keys = {}
  /\ task = [a \in Accounts |-> TaskInit]
  /\ driver = [a \in Accounts |-> "none"]
  /\ runState = "gathering"
  /\ results = [a \in Accounts |-> "pending"]
  /\ runs = 1
  /\ hist = HistInit(log, now, <<>>, <<>>)
  /\ obs = [a \in Accounts |-> ObsInit]

InitGenerate ==
  /\ SchedParked
  /\ gen \in GenInputs /\ ex = ExIdle /\ st = StIdle /\ hv = HvIdle /\ dc = DcIdle
  /\ ld = LdIdle
  /\ pm = PmIdle
  /\ mt = MtIdle

GenerateText ==
  /\ gen.result[1] = "pending"
  /\ gen' = [gen EXCEPT !.services_to_try = ServicesToTry(gen.order, gen.pref),
                         !.result = generate_text(gen)]
  /\ UNCHANGED <<schedvars, ex, st, hv, dc, ld, pm, mt>>

NextGenerate == GenerateText
SpecGenerate == InitGenerate /\ [][NextGenerate]_vars

(***************************************************************************)
(* Structured extraction: extract_json_from_response_text (parsing.py)     *)
(***************************************************************************)
MaxBody == 2      \* longest string value of the JSON object

\* A response text is a sequence of these: "{" and "}"; "q" the straight
\* double quote; "l" and "r" the smart double quotes; "b" a backtick; "a" any
\* other character; "n" the JSON literal null; "F" the opening fence (three backticks, json, white
\* space) and "E" the closing fence (three backticks)
StringChars == {"a", "{", "}", "b"}
Bodies == SeqsUpTo(StringChars, MaxBody)

\* the JSON text of the object whose one string value is body (the key and
\* colon, which hold no brace or quote of interest, are left out)
JsonText(body) == <<"{", "q">> \o body \o <<"q", "}">>

\* json.loads: the object, when the text is exactly one such JSON text
IsJson(c) ==
  /\ Len(c) >= 4
  /\ c[1] = "{" /\ c[2] = "q" /\ c[Len(c) - 1] = "q" /\ c[Len(c)] = "}"
  /\ \A i \in 3..(Len(c) - 2) : c[i] \in StringChars
json_loads(c) ==
  IF IsJson(c) THEN <<"ok", SubSeq(c, 3, Len(c) - 2)>>
  ELSE IF c = <<"n">> THEN <<"null", <<>>>>
  ELSE <<"error", <<>>>>

\* the three ways a model writes the same object
FencedResponse(body) == <<"a", "F">> \o JsonText(body) \o <<"E", "a">>
ProseResponse(body) == <<"a">> \o JsonText(body) \o <<"a">>
SmartQuoteResponse(body) == <<"{", "l">> \o body \o <<"r", "}">>

\* fence_pattern.search: the span between the first opening fence that has a
\* closing fence after it and the first such closing fence
FenceMatch(text) ==
  LET opens == {i \in 1..Len(text) : text[i] = "F" /\ \E j \in (i + 1)..Len(text) : text[j] = "E"}
  IN  IF opens = {} THEN <<FALSE, <<>>>>
      ELSE LET i == CHOOSE x \in opens : \A y \in opens : x <= y
               j == CHOOSE x \in (i + 1)..Len(text) :
                      text[x] = "E" /\ \A y \in (i + 1)..(x - 1) : text[y] # "E"
           IN  <<TRUE, SubSeq(text, i + 1, j - 1)>>

\* the depth-counted scan from the first "{": every brace counts, inside a
\* string value or not
RECURSIVE Scan(_, _, _, _)
Scan(text, start, i, depth) ==
  IF i > Len(text) THEN <<>>
  ELSE LET d == IF text[i] = "{" THEN depth + 1
                ELSE IF text[i] = "}" THEN depth - 1 ELSE depth
       IN  IF text[i] = "}" /\ d = 0 THEN SubSeq(text, start, i)
           ELSE Scan(text, start, i + 1, d)
BraceSpan(text) ==
  LET starts == {i \in 1..Len(text) : text[i] = "{"}
  IN  IF starts = {} THEN <<>>
      ELSE LET start == CHOOSE x \in starts : \A y \in starts : x <= y
           IN  Scan(text, start, start, 0)

\* the cleanup pass: smart quotes become straight ones, backticks are removed
RECURSIVE Cleaned(_)
Cleaned(c) ==
  IF c = <<>> THEN <<>>
  ELSE LET h == Head(c)
       IN  (IF h \in {"l", "r"} THEN <<"q">> ELSE IF h = "b" THEN <<>> ELSE <<h>>)
             \o Cleaned(Tail(c))

extract_json_from_response_text(text) ==
  IF text = <<>> THEN <<"empty", <<>>>>
  ELSE LET m == FenceMatch(text)
           candidate == IF m[1] THEN m[2] ELSE BraceSpan(text)
       IN  IF candidate = <<>> THEN <<"no_candidate", <<>>>>
           ELSE IF json_loads(candidate)[1] # "error" THEN json_loads(candidate)
           ELSE IF json_loads(Cleaned(candidate))[1] # "error" THEN json_loads(Cleaned(candidate))
           ELSE <<"parse_failed", <<>>>>

ExInputs ==
  [body : Bodies, fenced : {<<"pending", <<>>>>}, prose : {<<"pending", <<>>>>},
   smart : {<<"pending", <<>>>>}]
InitExtract ==
  /\ SchedParked
  /\ gen = GenIdle /\ ex \in ExInputs /\ st = StIdle /\ hv = HvIdle /\ dc = DcIdle
  /\ ld = LdIdle
  /\ pm = PmIdle
  /\ mt = MtIdle

ExtractFenced ==
  /\ ex.fenced[1] = "pending"
  /\ ex' = [ex EXCEPT !.fenced = extract_json_from_response_text(FencedResponse(ex.body))]
  /\ UNCHANGED <<schedvars, gen, st, hv, dc, ld, pm, mt>>
ExtractProse ==
  /\ ex.prose[1] = "pending"
  /\ ex' = [ex EXCEPT !.prose = extract_json_from_response_text(ProseResponse(ex.body))]
  /\ UNCHANGED <<schedvars, gen, st, hv, dc, ld, pm, mt>>
ExtractSmart ==
  /\ ex.smart[1] = "pending"
  /\ ex' = [ex EXCEPT !.smart = extract_json_from_response_text(SmartQuoteResponse(ex.body))]
  /\ UNCHANGED <<schedvars, gen, st, hv, dc, ld, pm, mt>>

NextExtract == ExtractFenced \/ ExtractProse \/ ExtractSmart
SpecExtract == InitExtract /\ [][NextExtract]_vars

(***************************************************************************)
(* LLMService.generate_structured (service.py)                             *)
(***************************************************************************)
MaxRetries == 2   \* largest max_retries of a call

\* what one call of generate_text gives: None, or a text
Replies ==
  {<<"none", <<>>>>, <<"text", <<>>>>,
   <<"text", FencedResponse(<<"a">>)>>, <<"text", ProseResponse(<<"a">>)>>,
   <<"text", SmartQuoteResponse(<<"a">>)>>, <<"text", <<"a">>>>,
   <<"text", ProseResponse(<<"}">>)>>, <<"text", <<"F", "n", "E">>>>}
NoText(r) == r[1] = "none" \/ r[2] = <<>>

NoResponseErrorConflated == "parse_failed"
NoResponseError == "No response from LLM"
ErrorOf(e) == IF e[1] = "null" THEN "Unknown parse error" ELSE e[1]
AttemptsOffByOne(max_retries) == max_retries + 2
Attempts(max_retries) == max_retries + 1

StInputs ==
  {[StIdle EXCEPT !.max_retries = m, !.use_openai_json_mode = j, !.response_format = j]
     : m \in 0..MaxRetries, j \in BOOLEAN}
InitStructured ==
  /\ SchedParked
  /\ gen = GenIdle /\ ex = ExIdle /\ st \in StInputs /\ hv = HvIdle /\ dc = DcIdle
  /\ ld = LdIdle
  /\ pm = PmIdle
  /\ mt = MtIdle

\* one pass of the retry loop: the call of generate_text and what follows it
Attempt(r) ==
  /\ ~st.result.returned
  /\ st.attempt < Attempts(st.max_retries)
  /\ LET e == extract_json_from_response_text(r[2])
         called == [st EXCEPT !.calls = Append(@, r)]
     IN  st' = IF NoText(r)
               THEN [called EXCEPT !.last_err = NoResponseError, !.attempt = @ + 1]
               ELSE IF e[1] = "ok"
               THEN [called EXCEPT !.result = [returned |-> TRUE, data |-> e, err |-> NONE]]
               ELSE [called EXCEPT
                       !.response_format =
                         IF st.use_openai_json_mode /\ st.attempt = 0 THEN FALSE ELSE @,
                       !.last_err = ErrorOf(e),
                       !.attempt = @ + 1]
  /\ UNCHANGED <<schedvars, gen, ex, hv, dc, ld, pm, mt>>

\* the return after the loop
Exhausted ==
  /\ ~st.result.returned
  /\ st.attempt >= Attempts(st.max_retries)
  /\ st' = [st EXCEPT !.result =
              [returned |-> TRUE, data |-> NoData,
               err |-> IF st.last_err = NONE
                       THEN "Failed to produce valid JSON after retries"
                       ELSE st.last_err]]
  /\ UNCHANGED <<schedvars, gen, ex, hv, dc, ld, pm, mt>>

NextStructured == (\E r \in Replies : Attempt(r)) \/ Exhausted
SpecStructured == InitStructured /\ [][NextStructured]_vars

Parsed(r) == ~NoText(r) /\ extract_json_from_response_text(r[2])[1] = "ok"
LastCall == st.calls[Len(st.calls)]

(***************************************************************************)
(* TweetScraper.scrape_tweets_from_url (scraper/service.py)                *)
(***************************************************************************)
MaxTweets == 2    \* largest max_tweets of a call
MaxStall == 5     \* largest stop_if_no_new_tweets_count of a call (the default)
NumCards == 3     \* tweets the page can show

Cards == 1..NumCards
ScrollOutcomes == {"ok", "end", "timeout", "error"}

HvInputs ==
  {[HvIdle EXCEPT !.max_tweets = m, !.stop_if_no_new_tweets_count = c, !.pc = "nav"]
     : m \in 1..MaxTweets, c \in 1..MaxStall}
InitHarvest ==
  /\ SchedParked
  /\ gen = GenIdle /\ ex = ExIdle /\ st = StIdle /\ hv \in HvInputs /\ dc = DcIdle
  /\ ld = LdIdle
  /\ pm = PmIdle
  /\ mt = MtIdle

\* the cards of a page in page order, as a sequence
RECURSIVE InOrder(_)
InOrder(S) ==
  IF S = {} THEN <<>>
  ELSE LET x == CHOOSE y \in S : \A z \in S : y <= z IN <<x>> \o InOrder(S \ {x})
Ids(q) == {q[i] : i \in 1..Len(q)}

\* the id parse_tweet_card reads from the status link of a card: the last
\* card of the page is a second rendering of the first tweet
tweet_id(card) == IF card = NumCards THEN 1 ELSE card

\* the test of the for loop over the cards: parsed and not seen before
IsNewAlways(parsed_tweet, seen_tweet_ids) == TRUE
IsNew(parsed_tweet, seen_tweet_ids) == parsed_tweet \notin seen_tweet_ids

\* the for loop over the card elements: a card whose parsing gives None is
\* passed over, the others are appended and marked seen unless seen before,
\* and the loop breaks when the list is full
RECURSIVE Collect(_, _, _, _, _)
Collect(cards, bad, scraped_tweets, seen_tweet_ids, max_tweets) ==
  IF cards = <<>> \/ Len(scraped_tweets) >= max_tweets
  THEN <<scraped_tweets, seen_tweet_ids>>
  ELSE LET card_el == Head(cards)
           parsed_tweet == tweet_id(card_el)
       IN  IF card_el \notin bad /\ IsNew(parsed_tweet, seen_tweet_ids)
           THEN Collect(Tail(cards), bad, Append(scraped_tweets, parsed_tweet),
                        seen_tweet_ids \cup {parsed_tweet}, max_tweets)
           ELSE Collect(Tail(cards), bad, scraped_tweets, seen_tweet_ids, max_tweets)

\* the counter after a pass that found no card elements
StallAfterEmptyKept(stall) == stall
StallAfterEmpty(stall) == stall + 1

\* navigate_to: a timeout or any other failure is logged there and gives
\* False, which the scraper does not look at
Navigate(ok) ==
  /\ hv.pc = "nav"
  /\ hv' = [hv EXCEPT !.pc = "loop",
                      !.errored = @ \/ ~ok,
                      !.at_error = IF ok THEN @ ELSE 0]
  /\ UNCHANGED <<schedvars, gen, ex, st, dc, ld, pm, mt>>

\* the end of a pass without the test of the stall counter
AfterPassNoStallTest(h, scroll) ==
  LET broke == Len(h.scraped_tweets) >= h.max_tweets
      failed == ~broke /\ scroll \in {"timeout", "error"}
  IN  [h EXCEPT !.pc = IF broke \/ scroll # "ok" THEN "returned" ELSE "loop",
                !.last_scroll = IF broke THEN NONE ELSE scroll,
                !.errored = @ \/ failed,
                !.at_error = IF failed /\ ~h.errored THEN Len(h.scraped_tweets) ELSE @]

\* the end of a pass with the result of scroll_page not looked at
AfterPassIgnoringEnd(h, scroll) ==
  LET broke == \/ h.scroll_attempts_with_no_new_tweets >= h.stop_if_no_new_tweets_count
               \/ Len(h.scraped_tweets) >= h.max_tweets
      failed == ~broke /\ scroll \in {"timeout", "error"}
  IN  [h EXCEPT !.pc = IF broke \/ failed THEN "returned" ELSE "loop",
                !.last_scroll = IF broke THEN NONE ELSE scroll,
                !.errored = @ \/ failed,
                !.at_error = IF failed /\ ~h.errored THEN Len(h.scraped_tweets) ELSE @]

\* what ends a pass after its cards were handled: the stall test, the size
\* test, then scroll_page, whose exceptions the except clauses turn into break
AfterPass(h, scroll) ==
  LET broke == \/ h.scroll_attempts_with_no_new_tweets >= h.stop_if_no_new_tweets_count
               \/ Len(h.scraped_tweets) >= h.max_tweets
      failed == ~broke /\ scroll \in {"timeout", "error"}
  IN  [h EXCEPT !.pc = IF broke \/ scroll # "ok" THEN "returned" ELSE "loop",
                !.last_scroll = IF broke THEN NONE ELSE scroll,
                !.errored = @ \/ failed,
                !.at_error = IF failed /\ ~h.errored THEN Len(h.scraped_tweets) ELSE @]

\* one pass of the while loop (its condition holds at every entry when
\* max_tweets >= 1: each pass that fills the list leaves by break). shown: the card elements of the page; bad: the
\* cards whose parsing meets a stale reference (parse_tweet_card gives None)
Pass(shown, bad, scroll) ==
  /\ hv.pc = "loop"
  /\ Len(hv.scraped_tweets) < hv.max_tweets
  /\ bad \subseteq shown
  /\ LET found == Collect(InOrder(shown), bad, hv.scraped_tweets, hv.seen_tweet_ids,
                           hv.max_tweets)
         new_tweets_found_this_scroll == Len(found[1]) - Len(hv.scraped_tweets)
         stall == IF shown = {}
                  THEN StallAfterEmpty(hv.scroll_attempts_with_no_new_tweets)
                  ELSE IF new_tweets_found_this_scroll = 0
                  THEN hv.scroll_attempts_with_no_new_tweets + 1
                  ELSE 0
         h == [hv EXCEPT !.scraped_tweets = found[1],
                         !.seen_tweet_ids = found[2],
                         !.last_shown = shown,
                         !.last_bad = bad,
                         !.scroll_attempts_with_no_new_tweets = stall,
                         !.passes = @ + 1,
                         !.idle_passes = IF new_tweets_found_this_scroll = 0 THEN @ + 1 ELSE 0,
                         !.errored = @ \/ bad # {},
                         !.at_error = IF bad # {} /\ ~hv.errored
                                      THEN Len(found[1]) ELSE @]
     IN  hv' = AfterPass(h, scroll)
  /\ UNCHANGED <<schedvars, gen, ex, st, dc, ld, pm, mt>>

NextHarvest ==
  \/ \E ok \in BOOLEAN : Navigate(ok)
  \/ \E shown \in SUBSET Cards, bad \in SUBSET Cards, scroll \in ScrollOutcomes :
       Pass(shown, bad, scroll)
SpecHarvest == InitHarvest /\ [][NextHarvest]_vars

(***************************************************************************)
(* TwitterOrchestrator._decide_competitor_action (main.py 43-83)           *)
(* Relevances and thresholds are in hundredths.                            *)
(***************************************************************************)
quote_min_default == 75
retweet_min_default == 50
repost_min_default == 35

RelLevels == {0, 20, 35, 50, 75, 80, 100}
Sentiments == {"positive", "neutral", "negative"}

TheValue(o) == CHOOSE v \in o : TRUE
\* `x is not None`
IsSetIgnored(o) == FALSE
IsSet(o) == o # Unset
\* dict.get(key, default)
Get(d, default) == IF d = Unset THEN default ELSE TheValue(d)
\* acc_ac.x if (acc_ac and acc_ac.x is not None) else <fallback>
Setting(ac, override, fallback) ==
  IF ac.present /\ IsSet(override) THEN TheValue(override) ELSE fallback

ActionConfigs ==
  {NoActionConfig} \cup
  [present : {TRUE},
   enable_engagement_decision : {Unset, {TRUE}, {FALSE}},
   use_sentiment_in_decision : {Unset, {FALSE}},
   decision_quote_min : {Unset, {0}, {60}},
   decision_retweet_min : {Unset, {0}, {60}},
   decision_repost_min : {Unset, {0}, {60}},
   competitor_post_interaction_type : {"repost", "retweet", "quote_tweet", UnknownType}]
DecisionCfgs ==
  [enabled : {Unset, {TRUE}, {FALSE}}, use_sentiment : {Unset, {TRUE}},
   quote_min : {Unset, {40}}, retweet_min : {Unset, {40}}, repost_min : {Unset, {40}}]

\* what analyze_tweet_structured gives: None, a dict without
\* recommended_action, or a dict with one (any string) and a relevance
Recommendations == InteractionTypes \cup {"RETWEET", "ignore"}
\* kinds: "none" (None or an empty dict), "dict" (no recommended_action key),
\* "rec" (the key is there, relevance a number or missing), "text_relevance"
\* (the key is there, relevance a text that float() rejects)
StructuredResults ==
  {NoStructured, [NoStructured EXCEPT !.kind = "dict"]} \cup
  [kind : {"rec"}, recommended_action : Recommendations, relevance : RelLevels] \cup
  [kind : {"text_relevance"}, recommended_action : Recommendations, relevance : {0}]
\* str(...).lower()
Lower(x) == IF x = "RETWEET" THEN "retweet" ELSE x

\* the guardrail of the structured tier
BelowGuardrailNever(rel, repost_min) == FALSE
BelowGuardrailInclusive(rel, repost_min) == rel <= repost_min
BelowGuardrail(rel, repost_min) == rel < repost_min

\* the heuristic mapping, lines 77-83
HeuristicActionRetweetFirst(rel, sentiment, quote_min, retweet_min, repost_min) ==
  IF rel >= retweet_min /\ sentiment \in {"positive", "neutral"} THEN "retweet"
  ELSE IF rel >= quote_min /\ sentiment \in {"positive", "neutral"} THEN "quote_tweet"
  ELSE IF rel >= repost_min THEN "repost"
  ELSE "like"
HeuristicActionRepostFirst(rel, sentiment, quote_min, retweet_min, repost_min) ==
  IF rel >= repost_min THEN "repost"
  ELSE IF rel >= quote_min /\ sentiment \in {"positive", "neutral"} THEN "quote_tweet"
  ELSE IF rel >= retweet_min /\ sentiment \in {"positive", "neutral"} THEN "retweet"
  ELSE "like"
HeuristicAction(rel, sentiment, quote_min, retweet_min, repost_min) ==
  IF rel >= quote_min /\ sentiment \in {"positive", "neutral"} THEN "quote_tweet"
  ELSE IF rel >= retweet_min /\ sentiment \in {"positive", "neutral"} THEN "retweet"
  ELSE IF rel >= repost_min THEN "repost"
  ELSE "like"

InitDecide ==
  /\ SchedParked /\ gen = GenIdle /\ ex = ExIdle /\ st = StIdle /\ hv = HvIdle
  /\ dc = [DcIdle EXCEPT !.pc = "start"]
  /\ ld = LdIdle
  /\ pm = PmIdle
  /\ mt = MtIdle

\* lines 45-56: the settings are resolved; with the decision disabled the
\* configured interaction type is returned
Resolve(ac, ed) ==
  /\ dc.pc = "start"
  /\ LET enabled == Setting(ac, ac.enable_engagement_decision, Get(ed.enabled, FALSE))
         r == [dc EXCEPT
                 !.acc_ac = ac, !.engagement_decision_cfg = ed,
                 !.decision_enabled = enabled,
                 !.use_sentiment =
                   Setting(ac, ac.use_sentiment_in_decision, Get(ed.use_sentiment, TRUE)),
                 !.quote_min =
                   Setting(ac, ac.decision_quote_min, Get(ed.quote_min, quote_min_default)),
                 !.retweet_min =
                   Setting(ac, ac.decision_retweet_min, Get(ed.retweet_min, retweet_min_default)),
                 !.repost_min =
                   Setting(ac, ac.decision_repost_min, Get(ed.repost_min, repost_min_default))]
     IN  dc' = IF ~enabled
               THEN [r EXCEPT !.pc = "returned", !.tier = "configured",
                              !.action = IF ac.present
                                         THEN ac.competitor_post_interaction_type
                                         ELSE "repost"]
               ELSE [r EXCEPT !.pc = "structured"]
  /\ UNCHANGED <<schedvars, gen, ex, st, hv, ld, pm, mt>>

\* lines 58-67: analyze_tweet_structured returns. The policy is not read
\* again from here on and is no longer carried in dc.
Analyze(s) ==
  /\ dc.pc = "structured"
  /\ LET d == [dc EXCEPT !.acc_ac = NoActionConfig,
                          !.engagement_decision_cfg = NoDecisionCfg,
                          !.structured = s]
         rec == Lower(s.recommended_action)
     IN  dc' = IF s.kind = "text_relevance"
               THEN [d EXCEPT !.pc = "raised"]   \* float(...) raises ValueError
               ELSE IF s.kind = "rec" /\ BelowGuardrail(s.relevance, dc.repost_min)
               THEN [d EXCEPT !.pc = "returned", !.tier = "structured", !.action = "like"]
               ELSE IF s.kind = "rec" /\ rec \in InteractionTypes
               THEN [d EXCEPT !.pc = "returned", !.tier = "structured", !.action = rec]
               ELSE [d EXCEPT !.pc = "relevance"]
  /\ UNCHANGED <<schedvars, gen, ex, st, hv, ld, pm, mt>>

\* lines 69-71 (and 77-83 without sentiment): score_relevance returns
Score(r) ==
  /\ dc.pc = "relevance"
  /\ dc' = IF dc.use_sentiment
           THEN [dc EXCEPT !.pc = "sentiment", !.rel = r]
           ELSE [dc EXCEPT !.pc = "returned", !.tier = "heuristic", !.rel = r,
                           !.sentiment = "neutral",
                           !.action = HeuristicAction(r, "neutral", dc.quote_min,
                                                      dc.retweet_min, dc.repost_min)]
  /\ UNCHANGED <<schedvars, gen, ex, st, hv, ld, pm, mt>>

\* lines 72-83: classify_sentiment returns or raises, then the mapping
Classify(sv) ==
  /\ dc.pc = "sentiment"
  /\ LET sentiment == IF sv = "raise" THEN "neutral" ELSE sv
     IN  dc' = [dc EXCEPT !.pc = "returned", !.tier = "heuristic",
                          !.sentiment = sentiment,
                          !.action = HeuristicAction(dc.rel, sentiment, dc.quote_min,
                                                     dc.retweet_min, dc.repost_min)]
  /\ UNCHANGED <<schedvars, gen, ex, st, hv, ld, pm, mt>>

NextDecide ==
  \/ \E ac \in ActionConfigs, ed \in DecisionCfgs : Resolve(ac, ed)
  \/ \E s \in StructuredResults : Analyze(s)
  \/ \E r \in RelLevels : Score(r)
  \/ \E sv \in Sentiments \cup {"raise"} : Classify(sv)
SpecDecide == InitDecide /\ [][NextDecide]_vars

Strength(a) ==
  CASE a = "like" -> 1 [] a = "repost" -> 2 [] a = "retweet" -> 3 [] a = "quote_tweet" -> 4
    [] OTHER -> 0

(***************************************************************************)
(* FileHandler.load_processed_action_keys on a file found at start         *)
(***************************************************************************)
MaxRows == 2      \* data rows of the file

LedgerKeys == {ActionKey("like", "acct1", t) : t \in Tweets}
Instants == 0..(2 * DayLen - 1)

\* a data row and the UTC instant it was written at; the rows with a
\* timestamp were written by this program on a host at the given offset
RowsAt(offset) ==
  {[row |-> Row(k, LocalIsoNow(i, offset)), instant |-> i] : k \in LedgerKeys, i \in Instants}
    \cup {[row |-> ShortRow(k), instant |-> i] : k \in LedgerKeys, i \in {0}}
    \cup {[row |-> GarbledRow(k), instant |-> i] : k \in LedgerKeys, i \in {0}}
FilesAt(offset) ==
  {<<>>} \cup
  UNION {{[i \in 1..(n + 1) |-> IF i = 1 THEN [row |-> HeaderRow, instant |-> 0] ELSE w[i - 1]]
            : w \in [1..n -> RowsAt(offset)]} : n \in 0..MaxRows}
LdInputs ==
  UNION {{[LdIdle EXCEPT !.file = [i \in 1..Len(w) |-> w[i].row],
                         !.instants = [i \in 1..Len(w) |-> w[i].instant],
                         !.offset = o, !.clock = c, !.pc = "start"]
            : w \in FilesAt(o), c \in Instants} : o \in TzOffsets}
InitLoad ==
  /\ SchedParked
  /\ gen = GenIdle /\ ex = ExIdle /\ st = StIdle /\ hv = HvIdle /\ dc = DcIdle
  /\ ld \in LdInputs
  /\ pm = PmIdle
  /\ mt = MtIdle

Load ==
  /\ ld.pc = "start"
  /\ ld' = [ld EXCEPT !.pc = "loaded",
                      !.processed_keys = load_processed_action_keys(ld.file, ld.clock)]
  /\ UNCHANGED <<schedvars, gen, ex, st, hv, dc, pm, mt>>

NextLoad == Load
SpecLoad == InitLoad /\ [][NextLoad]_vars

(***************************************************************************)
(* TextGenerator.generate_text: the parameters of one provider attempt      *)
(***************************************************************************)
ParamNames == {"model_name", "model", "max_tokens", "temperature"}
\* what a caller passes for a name: nothing, Python None, or a value
CallValues == {Unset, {"None"}, {"explicit"}}
\* what llm_settings[service]['default_params'] holds for a name
DefaultValues == {Unset, {"default"}}

\* {**service_config.get('default_params', {}), **call_params}
DictMerge(defaults, call) ==
  [k \in ParamNames |-> IF call[k] # Unset THEN call[k] ELSE defaults[k]]

\* if 'model_name' in final_params and 'model' not in final_params
RenameModel(f) ==
  IF f["model_name"] # Unset /\ f["model"] = Unset
  THEN [f EXCEPT !["model"] = f["model_name"], !["model_name"] = Unset]
  ELSE f

\* self.llm_settings.get('default_max_tokens', 250)
GatewayMaxTokens(setting) == IF setting = Unset THEN {"250"} ELSE setting

\* if 'max_tokens' not in final_params
WithMaxTokens(f, setting) ==
  IF f["max_tokens"] = Unset THEN [f EXCEPT !["max_tokens"] = GatewayMaxTokens(setting)]
  ELSE f

final_params(p) ==
  WithMaxTokens(RenameModel(DictMerge(p.default_params, p.call_params)), p.default_max_tokens)

\* the second argument of final_params.pop('model', ...): the service's model
\* or deployment_name, else the literal of the branch (azure has none)
ConfiguredModel(p) ==
  IF p.configured_model # Unset THEN p.configured_model
  ELSE IF p.service_name = "gemini" THEN {"gemini-2.5-flash"}
  ELSE IF p.service_name = "openai" THEN {"gpt-3.5-turbo"}
  ELSE Unset

\* dict.pop(key, default): the value under the key when the key is there,
\* None included
Pop(f, default) == IF f["model"] # Unset THEN f["model"] ELSE default

\* not deployment_name
Falsy(o) == o \in {Unset, {"None"}}

PmInputs ==
  [service_name : KnownServices, client : BOOLEAN,
   default_params : [ParamNames -> DefaultValues],
   configured_model : {Unset, {"configured"}},
   default_max_tokens : {Unset, {"gateway"}},
   call_params : [ParamNames -> CallValues],
   pc : {"start"}, final_params : {NoParams}, model_to_use : {Unset},
   invoked_model : {Unset}, outcome : {NONE}]

InitParams ==
  /\ SchedParked
  /\ gen = GenIdle /\ ex = ExIdle /\ st = StIdle /\ hv = HvIdle /\ dc = DcIdle
  /\ ld = LdIdle
  /\ pm \in PmInputs
  /\ mt = MtIdle

\* l.41-47: the merged parameters of the attempt
MergeParams ==
  /\ pm.pc = "start"
  /\ pm' = [pm EXCEPT !.pc = "merged", !.final_params = final_params(pm)]
  /\ UNCHANGED <<schedvars, gen, ex, st, hv, dc, ld, mt>>

\* l.49-93: the branch of the service. The gemini client is bound to its
\* model when it is built (clients.py 63-66), the popped model is only
\* logged; azure and openai pass the popped model to the SDK; azure is left
\* out when the popped deployment name is falsy.
CallProvider ==
  /\ pm.pc = "merged"
  /\ LET model == Pop(pm.final_params, ConfiguredModel(pm))
         rest == [pm.final_params EXCEPT !["model"] = Unset]
     IN  pm' = IF ~pm.client
               THEN [pm EXCEPT !.pc = "done", !.outcome = "unavailable"]
               ELSE IF pm.service_name = "azure" /\ Falsy(model)
               THEN [pm EXCEPT !.pc = "done", !.outcome = "skipped",
                               !.final_params = rest, !.model_to_use = model]
               ELSE [pm EXCEPT !.pc = "done", !.outcome = "invoked",
                               !.final_params = rest, !.model_to_use = model,
                               !.invoked_model = IF pm.service_name = "gemini"
                                                 THEN ConfiguredModel(pm) ELSE model]
  /\ UNCHANGED <<schedvars, gen, ex, st, hv, dc, ld, mt>>

NextParams == MergeParams \/ CallProvider
SpecParams == InitParams /\ [][NextParams]_vars

(***************************************************************************)
(* _process_account: the metrics calls around each Executor invocation      *)
(***************************************************************************)
MaxActions == 3   \* Executor invocations of the account that are followed

\* the places of _process_account that invoke the Executor
Branches == {"competitor_like", "competitor_repost", "competitor_retweet",
             "competitor_quote", "reply", "keyword_retweet", "keyword_like"}

\* the counter a success increments and the action name of the event
CounterOf(b) ==
  CASE b \in {"competitor_like", "keyword_like"} -> "likes"
    [] b = "competitor_repost" -> "posts"
    [] b \in {"competitor_retweet", "keyword_retweet"} -> "retweets"
    [] b = "competitor_quote" -> "quote_tweets"
    [] b = "reply" -> "replies"
EventOf(b) ==
  CASE b \in {"competitor_like", "keyword_like"} -> "like"
    [] b = "competitor_repost" -> "post"
    [] b \in {"competitor_retweet", "keyword_retweet"} -> "retweet"
    [] b = "competitor_quote" -> "quote_tweet"
    [] b = "reply" -> "reply"

\* calls of metrics.increment('errors') a failure goes through: the like
\* branch of the competitor loop makes one (l.222) and the common else of
\* that loop one more (l.268); every other branch makes one
ErrorIncrements(b) == IF b = "competitor_like" THEN 2 ELSE 1

\* MetricsRecorder.increment(key)
increment(counters, key, by) == [counters EXCEPT ![key] = @ + by]
\* MetricsRecorder.log_event(action, result): one line appended
log_event(events, action, result) == [events EXCEPT ![<<action, result>>] = @ + 1]

InitMetrics ==
  /\ SchedParked
  /\ gen = GenIdle /\ ex = ExIdle /\ st = StIdle /\ hv = HvIdle /\ dc = DcIdle
  /\ ld = LdIdle /\ pm = PmIdle
  /\ mt = MtIdle

\* one Executor invocation of branch b returns success, and the metrics
\* calls that follow it
RecordMetrics(b, success) ==
  /\ mt.actions < MaxActions
  /\ mt' = [mt EXCEPT
       !.counters = IF success THEN increment(@, CounterOf(b), 1)
                    ELSE increment(@, "errors", ErrorIncrements(b)),
       !.events = log_event(@, EventOf(b), IF success THEN "success" ELSE "failure"),
       !.actions = @ + 1,
       !.last = <<b, success>>]
  /\ UNCHANGED <<schedvars, gen, ex, st, hv, dc, ld, pm>>

NextMetrics == \E b \in Branches, success \in BOOLEAN : RecordMetrics(b, success)
SpecMetrics == InitMetrics /\ [][NextMetrics]_vars

\* C11: an account asleep after an action has recorded that action's key and
\* sleeps an interval within [minDelay, maxDelay] of its policy, in every
\* feature loop; after a failed action it is at its next candidate, not asleep.
C11_RecordThenSleepInPolicyBounds ==
  \A a \in Accounts :
    /\ task[a].pc = "sleep" =>
         /\ obs[a].lastSucc \in keys
         /\ task[a].delay >= min_delay_between_actions_seconds
         /\ task[a].delay <= max_delay_between_actions_seconds
    /\ obs[a].result = "failure" => task[a].pc = "cand"

\* C12: while an account is inside a blocking collaborator call (a page
\* harvest or an Executor action), every other account whose task has not
\* ended can take a step.
Ready(b) == runState = "gathering" /\ task[b].pc \notin {"finished", "cancelled"}
C12_BlockingCallsOffLoop ==
  \A a, b \in Accounts :
    (a # b /\ task[a].pc \in {"harvest", "exec"} /\ Ready(b)) => ENABLED Step(b)

\* C13: once the run is interrupted no account is at a new candidate or inside
\* an Executor action, and when the interrupted run has ended the persisted
\* log holds exactly the keys of the actions that succeeded in this run.
C13_InterruptLeavesLedgerConsistent ==
  /\ runState \in {"cancelling", "interrupted"} =>
        \A a \in Accounts : task[a].pc \notin {"cand", "exec"}
  /\ runState = "interrupted" =>
        {log[i].action_key : i \in RowsOf(log)} = hist.execd

\* providers of the attempt order that generate_text can call
Callable(g) ==
  {i \in 1..Len(ServicesToTry(g.order, g.pref)) :
     LET name == ServicesToTry(g.order, g.pref)[i]
     IN  HasHandle(g, name) /\ (name = "azure" => g.deployment)}
ProviderAt(g, i) == ServicesToTry(g.order, g.pref)[i]
FirstOf(S) == CHOOSE i \in S : \A j \in S : i <= j

C15_FirstNonEmptyText ==
  gen.result[1] \notin {"idle", "pending"} =>
    LET good == {i \in Callable(gen) : gen.behaviour[ProviderAt(gen, i)] = "text"}
    IN  IF good = {}
        THEN gen.result[1] \in {"none", "empty"}
        ELSE gen.result[1] = "text" /\ gen.result[2] = ProviderAt(gen, FirstOf(good))

\* C18: the fenced, the prose-wrapped and the smart-quoted response of one
\* JSON object are all extracted to that object.
C18_ExtractionRoundTrip ==
  /\ ex.fenced[1] \notin {"idle", "pending"} => ex.fenced = <<"ok", ex.body>>
  /\ ex.prose[1] \notin {"idle", "pending"} => ex.prose = <<"ok", ex.body>>
  /\ ex.smart[1] \notin {"idle", "pending"} => ex.smart = <<"ok", ex.body>>

C17_NoResponseNotConflated ==
  st.result.returned =>
    /\ (st.result.data = NoData) # (st.result.err = NONE)
    /\ st.result.data = NoData =>
          /\ (\A i \in 1..Len(st.calls) : NoText(st.calls[i])) =>
                st.result.err = "No response from LLM"
          /\ ~NoText(LastCall) =>
                st.result.err \in {"no_candidate", "parse_failed", "Unknown parse error"}
C17_Witness ==
  /\ st.result.returned /\ st.result.data = NoData
  /\ Len(st.calls) = 3
  /\ NoText(st.calls[1]) /\ NoText(st.calls[2]) /\ ~NoText(st.calls[3])
  /\ st.result.err = "parse_failed"

\* C19: while the source yields no new item the harvest makes at most
\* stop_if_no_new_tweets_count passes in a row, another pass is possible only
\* below that number, and a harvest that returns after such a pass returns
\* fewer than max_tweets items.
C19_HarvestTerminates ==
  /\ hv.idle_passes <= hv.stop_if_no_new_tweets_count
  /\ hv.pc = "loop" => hv.idle_passes < hv.stop_if_no_new_tweets_count
  /\ (hv.pc = "returned" /\ hv.idle_passes > 0) =>
        Len(hv.scraped_tweets) < hv.max_tweets
C19_Witness ==
  /\ hv.pc = "returned" /\ ~hv.errored
  /\ hv.stop_if_no_new_tweets_count = 2 /\ hv.idle_passes = 2 /\ hv.passes = 2
  /\ hv.scraped_tweets = <<>>

\* C20: after a harvest error (a stale reference, a navigation timeout, a
\* scroll failure) the call collects nothing more: it returns what it had
\* collected when the error happened.
C20_HarvestErrorAborts ==
  hv.errored => Len(hv.scraped_tweets) = hv.at_error

\* C21: in the heuristic tier the action is quote_tweet when the relevance
\* reaches quote_min and the sentiment is positive or neutral, else retweet
\* when it reaches retweet_min under the same gate, else repost when it
\* reaches repost_min, else like.
C21_HeuristicThresholdOrder ==
  (dc.pc = "returned" /\ dc.tier = "heuristic") =>
    LET gate == dc.sentiment \in {"positive", "neutral"}
    IN  /\ (dc.rel >= dc.quote_min /\ gate) => dc.action = "quote_tweet"
        /\ (~(dc.rel >= dc.quote_min /\ gate) /\ dc.rel >= dc.retweet_min /\ gate) =>
              dc.action = "retweet"
        /\ (~(dc.rel >= dc.quote_min /\ gate) /\ ~(dc.rel >= dc.retweet_min /\ gate)
              /\ dc.rel >= dc.repost_min) => dc.action = "repost"
        /\ (~(dc.rel >= dc.quote_min /\ gate) /\ ~(dc.rel >= dc.retweet_min /\ gate)
              /\ dc.rel < dc.repost_min) => dc.action = "like"
C21_Witness ==
  /\ dc.pc = "returned" /\ dc.tier = "heuristic"
  /\ dc.rel = 80 /\ dc.sentiment = "positive" /\ dc.quote_min = 75
  /\ dc.retweet_min = 50 /\ dc.action = "quote_tweet"

\* C22: for a sentiment that is positive or neutral and fixed thresholds, no
\* higher relevance is mapped to a weaker action and no lower relevance to a
\* stronger one than the action chosen (like < repost < retweet < quote_tweet);
\* the same holds in the structured tier for a fixed valid recommendation.
C22_ThresholdMonotonicity ==
  /\ (dc.pc = "returned" /\ dc.tier = "heuristic"
        /\ dc.sentiment \in {"positive", "neutral"}) =>
       \A r \in RelLevels :
         LET other == HeuristicAction(r, dc.sentiment, dc.quote_min, dc.retweet_min,
                                      dc.repost_min)
         IN  /\ r >= dc.rel => Strength(other) >= Strength(dc.action)
             /\ r <= dc.rel => Strength(other) <= Strength(dc.action)
  /\ (dc.pc = "returned" /\ dc.tier = "structured"
        /\ Lower(dc.structured.recommended_action) \in InteractionTypes) =>
       \A r \in RelLevels :
         LET other == IF BelowGuardrail(r, dc.repost_min) THEN "like"
                      ELSE Lower(dc.structured.recommended_action)
         IN  /\ r >= dc.structured.relevance => Strength(other) >= Strength(dc.action)
             /\ r <= dc.structured.relevance => Strength(other) <= Strength(dc.action)
C22_Witness ==
  /\ dc.pc = "returned" /\ dc.tier = "heuristic" /\ dc.sentiment = "neutral"
  /\ dc.quote_min = 0 /\ dc.retweet_min = 60 /\ dc.repost_min = 40
  /\ dc.rel = 20 /\ dc.action = "quote_tweet"

\* C23: the heuristic tier decides both when the structured generation gave
\* nothing and when the decision is disabled for the account.
C23_HeuristicFallbackInBothCases ==
  dc.pc = "returned" =>
    /\ (dc.decision_enabled /\ dc.structured.kind = "none") => dc.tier = "heuristic"
    /\ ~dc.decision_enabled => dc.tier = "heuristic"

\* C24: the action returned is one of like, repost, retweet, quote_tweet.
C24_ActionInRange ==
  dc.pc = "returned" => dc.action \in InteractionTypes

Precedence(value, override, global, fallback) ==
  /\ override # {} => value \in override
  /\ (override = {} /\ global # {}) => value \in global
  /\ (override = {} /\ global = {}) => value = fallback
C27_LoadsExactlyTodaysKeys ==
  ld.pc = "loaded" =>
    ld.processed_keys =
      {ld.file[j].action_key :
         j \in {i \in 2..Len(ld.file) :
                 /\ ld.file[i].timestamp.tzinfo = "naive"
                 /\ UtcDay(ld.instants[i]) = UtcDay(ld.clock)}}


\* C28: record is append-only. Every step leaves the rows already in the log
\* as they are and in place; the log is the header row once, then one row
\* per record call that returned True, in call order, each with the action
\* key in its first column and the timestamp in its second.
C28_AppendOnly ==
  [][/\ Len(log') >= Len(log)
     /\ \A i \in 1..Len(log) : log'[i] = log[i]
     /\ Len(log') = IF hist'.savedOk = <<>> THEN 0 ELSE 1 + Len(hist'.savedOk)
     /\ \A i \in 1..Len(log') :
          IF i = 1 THEN log'[i] = HeaderRow
          ELSE /\ log'[i] = hist'.savedOk[i - 1]
               /\ ~log'[i].header
               /\ log'[i].action_key # HeaderRow.action_key
               /\ log'[i].timestamp.tzinfo = "naive"]_vars

\* a later start of the program has appended a row to the rows it found
C28_Witness ==
  /\ runs = 2
  /\ hist.rowsAtStart >= 2
  /\ Len(log) > hist.rowsAtStart


\* C29: an account whose is_active is false is skipped entirely: no browser
\* session is opened for it, nothing is harvested, checked or decided for
\* it, the Executor is never invoked for it, and no key or row of the
\* ledger carries its id.
C29_InactiveAccountSkipped ==
  \A a \in Accounts :
    cfg[a].shape = "inactive" =>
      /\ driver[a] = "none"
      /\ ~obs[a].setupOk
      /\ task[a].batch = <<>> /\ task[a].src = 0 /\ task[a].feat = 0
      /\ obs[a].checked = NoKey
      /\ obs[a].acting = NoKey /\ obs[a].result = NONE /\ obs[a].lastSucc = NoKey
      /\ task[a].made = 0 /\ task[a].likes = 0
      /\ \A k \in keys : k[2] # a
      /\ \A i \in 1..Len(log) : log[i].action_key[2] # a

\* an inactive account with every feature configured has returned while the
\* other account has acted and recorded
C29_Witness ==
  \E a \in Accounts :
    /\ cfg[a].shape = "inactive" /\ cfg[a].feats = FeatureSet
    /\ task[a].pc = "finished"
    /\ Len(log) >= 2


\* C30: the provider-attempt list generate builds is the configured order
\* with the preference moved to the front when it occurs in that order and
\* inserted at the front when it does not: the other providers keep their
\* configured relative order and the preference appears exactly once.
C30_PreferenceMovedToFront ==
  gen.result[1] \notin {"idle", "pending"} =>
    LET list == gen.services_to_try
        Other(x) == x # gen.pref
    IN  IF gen.pref = NONE THEN list = gen.order
        ELSE /\ Len(list) >= 1 /\ list[1] = gen.pref
             /\ SelectSeq(Tail(list), Other) = SelectSeq(gen.order, Other)
             /\ Cardinality({i \in 1..Len(list) : list[i] = gen.pref}) = 1


\* the explicit value of a parameter of the call and the provider's default
\* for it; callers name the model model_name, the SDKs name it model
ExplicitParam(p, k) ==
  IF k = "model" /\ p.call_params["model"] = Unset THEN p.call_params["model_name"]
  ELSE p.call_params[k]
ProviderDefault(p, k) ==
  IF k = "model" /\ p.default_params["model"] = Unset THEN p.default_params["model_name"]
  ELSE p.default_params[k]

\* C31: for every provider attempt and every generation parameter the merged
\* value is the explicit call parameter when one is given, otherwise the
\* provider's default, and for the max output size otherwise the gateway-wide
\* default; a provider default never overrides an explicit call parameter.
C31_ParameterPrecedence ==
  pm.pc = "merged" =>
    \A k \in {"model", "max_tokens", "temperature"} :
      pm.final_params[k] =
        IF ExplicitParam(pm, k) # Unset THEN ExplicitParam(pm, k)
        ELSE IF ProviderDefault(pm, k) # Unset THEN ProviderDefault(pm, k)
        ELSE IF k = "max_tokens" THEN GatewayMaxTokens(pm.default_max_tokens)
        ELSE Unset

\* C37: when the caller passes model_name=None and no model, a usable
\* provider is invoked with its configured default model or deployment name;
\* a usable azure provider with a configured deployment name is not skipped.
C37_NoOverrideUsesConfiguredModel ==
  /\ pm.pc = "done" /\ pm.client
  /\ pm.call_params["model_name"] = {"None"} /\ pm.call_params["model"] = Unset
  /\ pm.default_params["model"] = Unset /\ pm.default_params["model_name"] = Unset
  /\ ConfiguredModel(pm) # Unset
  => /\ pm.outcome = "invoked"
     /\ pm.invoked_model = ConfiguredModel(pm)


\* C32: each pass that adds no tweet increments the stall counter by one,
\* each pass that adds at least one resets it to 0, and the harvest stops on
\* stall exactly when the counter reaches stop_if_no_new_tweets_count: the
\* loop is never entered with the counter at the limit and the counter
\* never passes it.
C32_StallCounter ==
  /\ [](/\ hv.scroll_attempts_with_no_new_tweets <= hv.stop_if_no_new_tweets_count
        /\ (hv.pc = "loop" =>
              hv.scroll_attempts_with_no_new_tweets < hv.stop_if_no_new_tweets_count))
  /\ [][hv'.passes = hv.passes + 1 =>
          hv'.scroll_attempts_with_no_new_tweets =
            IF Len(hv'.scraped_tweets) = Len(hv.scraped_tweets)
            THEN hv.scroll_attempts_with_no_new_tweets + 1
            ELSE 0]_vars

\* the page showed the same tweets on six passes, five scrolls apart: the
\* harvest returned with the counter at 5 and fewer tweets than max_tweets
C32_Witness ==
  /\ hv.pc = "returned"
  /\ hv.stop_if_no_new_tweets_count = 5
  /\ hv.scroll_attempts_with_no_new_tweets = 5
  /\ hv.passes = 6
  /\ Len(hv.scraped_tweets) >= 1 /\ Len(hv.scraped_tweets) < hv.max_tweets


\* C33: when scroll_page reports no further content the harvest stops at
\* once, whatever the stall counter holds: it returns the tweets collected
\* so far and makes no further pass.
C33_EndOfPageStops ==
  /\ [](hv.last_scroll = "end" => hv.pc = "returned")
  /\ [][hv.pc = "returned" =>
          /\ hv'.passes = hv.passes
          /\ hv'.scraped_tweets = hv.scraped_tweets]_vars

\* the page ended after a pass without new tweets, below the stall limit
C33_Witness ==
  /\ hv.last_scroll = "end" /\ hv.pc = "returned"
  /\ hv.scroll_attempts_with_no_new_tweets >= 1
  /\ hv.scroll_attempts_with_no_new_tweets < hv.stop_if_no_new_tweets_count
  /\ Len(hv.scraped_tweets) >= 1 /\ Len(hv.scraped_tweets) < hv.max_tweets


\* C34: in every state of the harvest and in its result the list holds no
\* two tweets with the same id, the seen set is the set of ids of the list,
\* the list is no longer than max_tweets, and tweets stay in the order of
\* their first discovery: each pass keeps the list as a prefix and appends,
\* in page order, only ids of cards that parsed.
C34_CollectedInvariants ==
  /\ [](/\ \A i, j \in 1..Len(hv.scraped_tweets) :
             hv.scraped_tweets[i] = hv.scraped_tweets[j] => i = j
        /\ hv.seen_tweet_ids = Ids(hv.scraped_tweets)
        /\ Len(hv.scraped_tweets) <= hv.max_tweets)
  /\ [][LET old == Len(hv.scraped_tweets)
            FirstCard(id) == CHOOSE c \in hv'.last_shown \ hv'.last_bad :
                               /\ tweet_id(c) = id
                               /\ \A d \in hv'.last_shown \ hv'.last_bad :
                                    tweet_id(d) = id => c <= d
        IN  /\ Len(hv'.scraped_tweets) >= old
            /\ SubSeq(hv'.scraped_tweets, 1, old) = hv.scraped_tweets
            /\ \A i \in (old + 1)..Len(hv'.scraped_tweets) :
                 \E c \in hv'.last_shown \ hv'.last_bad : tweet_id(c) = hv'.scraped_tweets[i]
            /\ \A i, j \in (old + 1)..Len(hv'.scraped_tweets) :
                 i < j => FirstCard(hv'.scraped_tweets[i]) < FirstCard(hv'.scraped_tweets[j])]_vars

\* a pass showed the first tweet twice and a card that did not parse: the
\* list holds the first tweet once and not the tweet of the unparsed card
C34_Witness ==
  /\ hv.last_shown = Cards /\ hv.last_bad = {2}
  /\ hv.passes = 1
  /\ hv.scraped_tweets = <<1>>


\* C35: when the structured analysis gives one of the four actions and a
\* relevance of at least repost_min, decide returns that action from the
\* structured tier, the heuristic tier not run; when its relevance is below
\* repost_min decide returns like.
C35_StructuredRecommendationUsed ==
  (/\ dc.pc \in {"returned", "relevance", "sentiment"}
   /\ dc.decision_enabled
   /\ dc.structured.kind = "rec"
   /\ dc.structured.recommended_action \in InteractionTypes) =>
      /\ dc.pc = "returned" /\ dc.tier = "structured"
      /\ dc.action = IF dc.structured.relevance >= dc.repost_min
                     THEN dc.structured.recommended_action
                     ELSE "like"

\* a recommendation whose relevance is exactly repost_min was returned
C35_Witness ==
  /\ dc.pc = "returned" /\ dc.tier = "structured"
  /\ dc.structured.relevance = dc.repost_min /\ dc.repost_min > 0
  /\ dc.structured.recommended_action = "quote_tweet"
  /\ dc.action = "quote_tweet"

\* C38: whatever object the structured analysis returns (fields missing,
\* relevance not a number, recommended_action outside the four actions),
\* decide does not raise: an unusable result falls through to the heuristic
\* tier, which returns an action.
C38_UnusableStructuredFallsThrough ==
  /\ dc.pc # "raised"
  /\ (/\ dc.pc = "returned" /\ dc.decision_enabled
      /\ \/ dc.structured.kind \in {"none", "dict", "text_relevance"}
         \/ /\ dc.structured.kind = "rec"
            /\ Lower(dc.structured.recommended_action) \notin InteractionTypes
            /\ dc.structured.relevance >= dc.repost_min) =>
        dc.tier = "heuristic" /\ dc.action \in InteractionTypes


\* C36: metrics are counted once per action and outcome. A failed action
\* adds exactly one to the errors counter and logs exactly one failure event
\* of its action kind; a successful action adds one to exactly one
\* action-kind counter, logs one success event and leaves errors alone.
C36_MetricsOncePerAction ==
  [][mt'.actions = mt.actions + 1 =>
       LET b == mt'.last[1]
           success == mt'.last[2]
           result == IF success THEN "success" ELSE "failure"
       IN  /\ mt'.events = [mt.events EXCEPT ![<<EventOf(b), result>>] = @ + 1]
           /\ mt'.counters =
                [mt.counters EXCEPT ![IF success THEN CounterOf(b) ELSE "errors"] = @ + 1]]_vars


C40_DriverClosedOnEveryExit ==
  \A a \in Accounts :
    /\ task[a].pc = "finished" => driver[a] # "open"
    /\ (obs[a].setupOk /\ task[a].pc \in {"final_sleep", "cancel_sleep", "finished"}) =>
          driver[a] = "closed"

\* one account was cancelled with its session open and one left through an
\* exception of the Executor; both sessions are closed
C40_Witness ==
  \E a, b \in Accounts :
    /\ a # b
    /\ task[a].pc = "finished" /\ task[a].ended = "cancelled"
    /\ obs[a].setupOk /\ driver[a] = "closed"
    /\ task[b].pc = "finished" /\ obs[b].caught /\ obs[b].setupOk
    /\ driver[b] = "closed"

====
